---- MODULE Spec2Model ----
(***************************************************************************)
(* A model of MERlin's pixel based decoder (merlin/util/decoding.py) and   *)
(* of its segmentation tasks (merlin/analysis/segment.py).                 *)
(*                                                                         *)
(* Six specifications share the module:                                    *)
(*   Spec          the segmentation pipeline: WatershedSegment per field   *)
(*                 of view, then CleanCellBoundaries over all of them      *)
(*   SpecDedup     CleanCellBoundaries and RefineCellDatabases behind a    *)
(*                 completed segmentation                                  *)
(*   SpecDecode    PixelBasedDecoder.__init__ and decode_pixels            *)
(*   SpecExtract   PixelBasedDecoder.extract_barcodes_with_index           *)
(*   SpecRefactor  PixelBasedDecoder.extract_refactors                     *)
(*   SpecBarcodes  PixelBasedDecoder._calculate_normalized_barcodes        *)
(* Each specification leaves the variables of the others at their idle     *)
(* values.                                                                 *)
(***************************************************************************)
EXTENDS Integers, Sequences, FiniteSets, TLC

(***************************************************************************)
(* Bounds of the model.                                                    *)
(***************************************************************************)
\* the number of fields of view of the data set
NumFOVs == 2
\* how many times fragments of the segmentation task are reset in one run
MaxResets == 1
\* the number of pixels of an image given to decode_pixels
NumPixels == 2
\* the fixed-point unit: a real number r of the program is the integer
\* nearest below r * FP
FP == 1000
\* the rows and columns of a decoded image given to
\* extract_barcodes_with_index
ExtRows == 3
ExtCols == 3
\* the rows and columns of a decoded image given to extract_refactors
RefRows == 2
RefCols == 4
\* the bits of a barcode and the barcodes of a codebook given to
\* _calculate_normalized_barcodes
NormBits == 3
MaxBarcodes == 2

VARIABLES
    \* ---- the segmentation pipeline (segment.py) ----
    warpDone,       \* the warp task is complete
    alignDone,      \* the global alignment task is complete
    segStatus,      \* per fragment of WatershedSegment: idle, running, done, failed
    segDB,          \* the segment task's feature database, per field of view
    nResets,        \* the resets of segmentation fragments so far
    cleanPc,        \* CleanCellBoundaries._run_analysis: where it is
    cleanIdx,       \* the index into allFOVs of the running loop
    spatialTree,    \* the rtree index: a set of [handle, bbox, obj]
    count,          \* the next free handle of the index
    idToNum,        \* feature id -> handle
    graph,          \* the networkx graph: [nodes, edges]
    cleanedCells,   \* the local data frame of line 206, or NoTable
    cleanFailedAt,  \* where the last run of the clean task failed, if it did
    persisted,      \* the files the data set holds for CleanCellBoundaries
    refineStatus,   \* per fragment of RefineCellDatabases: idle, done
    refinedDB,      \* the refine task's feature database, per field of view
    \* ---- PixelBasedDecoder: construction and decode_pixels ----
    decPc,          \* new, constructed, decoded, error
    decoder,        \* the fields of the decoder object
    decCall,        \* the arguments of the decode_pixels call
    decResult,      \* what decode_pixels returned
    \* ---- PixelBasedDecoder.extract_barcodes_with_index ----
    extCall,        \* the arguments of the call
    extResult,      \* the rows of the data frame it returned
    \* ---- PixelBasedDecoder.extract_refactors ----
    refCall,        \* the arguments of the call
    refPc,          \* where the call is: loop, masked, averaged, returned
    refB,           \* the barcode the loop of line 319 is at
    refState,       \* the arrays of the call, and the refactors it returns
    \* ---- PixelBasedDecoder._calculate_normalized_barcodes ----
    normCall,       \* the barcodes of the codebook and the includeErrors flag
    normResult      \* the array it returned

pipeVars == <<warpDone, alignDone, segStatus, segDB, nResets, cleanPc, cleanIdx,
              spatialTree, count, idToNum, graph, cleanedCells, cleanFailedAt,
              persisted, refineStatus, refinedDB>>

refineVars == <<refineStatus, refinedDB>>

decVars == <<decPc, decoder, decCall, decResult>>

extVars == <<extCall, extResult>>

refVars == <<refCall, refPc, refB, refState>>

normVars == <<normCall, normResult>>

vars == <<pipeVars, decVars, extVars, refVars, normVars>>

\* the decoder's calibration is not running
RefIdle ==
    /\ refCall = <<>>
    /\ refPc = "idle"
    /\ refB = 0
    /\ refState = <<>>

\* the decoding matrix is not being computed on its own
NormIdle ==
    /\ normCall = <<>>
    /\ normResult = <<>>

\* what the steps of one specification leave alone
notPipe == <<decVars, extVars, refVars, normVars, refineVars>>
notDec == <<pipeVars, extVars, refVars, normVars>>
notExt == <<pipeVars, decVars, refVars, normVars>>
notRef == <<pipeVars, decVars, extVars, normVars>>
notNorm == <<pipeVars, decVars, extVars, refVars>>

(***************************************************************************)
(* The data set: fields of view, their global extents, candidate cells.    *)
(***************************************************************************)
\* dataSet.get_fovs(): the fields of view, in their fixed order
FOVs == 0 .. (NumFOVs - 1)

\* alignTask.fov_global_extent(f): (minx, miny, maxx, maxy) of a field of
\* view. The tiles lie in a row, four positions wide, and each shares two
\* positions with the next.
fov_global_extent(f) == <<2 * f, 0, 2 * f + 3, 0>>

\* The cells a watershed of one field of view can find, k naming the shape.
Shapes == 0 .. 3

\* The positions (x, in global coordinates; y is 0) a cell covers: shapes 0
\* and 1 reach into the tile before, shapes 1 and 2 into the tile after,
\* shape 3 is malformed, and shape 4 is the geometry of shape 2 of the tile
\* before: the same cell, found again.
Pts(c) ==
    LET o == 2 * c.fov IN
    CASE c.k = 0 -> {o, o + 1}
      [] c.k = 1 -> {o, o + 2}
      [] c.k = 2 -> {o + 3}
      [] c.k = 4 -> {o + 1}
      [] OTHER   -> IF c.fov % 2 = 0 THEN {} ELSE {o + 1}

SetMin(S) == CHOOSE x \in S : \A y \in S : x <= y
SetMax(S) == CHOOSE x \in S : \A y \in S : x >= y

\* SpatialFeature.get_bounding_box(): four scalars; a feature without
\* boundaries (shape 3 in an even field of view) has a box of three.
get_bounding_box(c) ==
    IF Pts(c) = {} THEN <<0, 0, 0>>
    ELSE <<SetMin(Pts(c)), 0, SetMax(Pts(c)), 0>>

\* SpatialFeature.get_volume(): shape 3 in an odd field of view has a
\* well-formed box and no volume.
get_volume(c) == IF c.k = 3 THEN 0 ELSE Cardinality(Pts(c))

\* SpatialFeature.get_feature_id()
get_feature_id(c) == <<c.fov, c.k>>

CellsOf(f) == {[fov |-> f, k |-> k] : k \in Shapes}

\* ids are ordered as pairs
IdLess(a, b) == a[1] < b[1] \/ (a[1] = b[1] /\ a[2] < b[2])

NoTable == <<"none">>
EmptyGraph == [nodes |-> {}, edges |-> {}]
NoFiles == [name \in {} |-> NoTable]

\* dataSet.save_dataframe_to_csv(df, name, analysisTask): the file of that
\* name now holds the data frame
save_dataframe_to_csv(files, df, name) ==
    [n \in (DOMAIN files) \cup {name} |-> IF n = name THEN df ELSE files[n]]

(***************************************************************************)
(* merlin.util.spatialfeature and the feature database, as the             *)
(* specification of the deduplication engine describes them.               *)
(***************************************************************************)
\* HDF5SpatialFeatureDB.read_features(fov): the stored features of one
\* field of view, as a list (here in the order of their ids)
RECURSIVE SortCells(_)
SortCells(S) ==
    IF S = {} THEN <<>>
    ELSE LET c == CHOOSE x \in S :
                    \A y \in S : x = y \/ IdLess(get_feature_id(x), get_feature_id(y))
         IN <<c>> \o SortCells(S \ {c})

read_features(db, fov) == SortCells(db[fov])

\* HDF5SpatialFeatureDB.write_features(features, fov): adds the features
\* to the store of that field of view and touches no other
write_features(db, features, fov) ==
    [db EXCEPT ![fov] = @ \cup features]

\* HDF5SpatialFeatureDB.empty_database(fov): with a field of view, empties
\* its store; with None (here -1), the store of every field of view
empty_database(db, fov) ==
    IF fov = -1 THEN [f \in DOMAIN db |-> {}]
    ELSE [db EXCEPT ![fov] = {}]

\* simple_clean_cells: step 1, discard the cells whose bounding box is not
\* of 4 scalars or whose volume is not positive
simple_clean_cells(cells) ==
    SelectSeq(cells, LAMBDA cell :
        Len(get_bounding_box(cell)) = 4 /\ get_volume(cell) > 0)

\* rtree's intersection of two boxes (minx, miny, maxx, maxy); false of a
\* box that is no box
BoxIntersects(a, b) ==
    /\ Len(a) = 4 /\ Len(b) = 4
    /\ a[1] <= b[3] /\ b[1] <= a[3]
    /\ a[2] <= b[4] /\ b[2] <= a[4]

\* construct_tree: step 2, every cell of the list goes into the index under
\* the next free handle, with the feature as its object
construct_tree(cells, tree, cnt, idMap) ==
    LET n == Len(cells)
        ids == {get_feature_id(cells[i]) : i \in 1 .. n}
        newMap == [id \in (DOMAIN idMap) \cup ids |->
                    IF \E i \in 1 .. n : get_feature_id(cells[i]) = id
                    THEN cnt + (CHOOSE i \in 1 .. n : get_feature_id(cells[i]) = id) - 1
                    ELSE idMap[id]]
    IN [tree |-> tree \cup {[handle |-> newMap[get_feature_id(cells[i])],
                             bbox |-> get_bounding_box(cells[i]),
                             obj |-> cells[i]] : i \in 1 .. n},
        count |-> cnt + n,
        idToNum |-> newMap]

\* twice the center of a box along x
Center2(box) == box[1] + box[3]

Abs(x) == IF x < 0 THEN 0 - x ELSE x

\* step 4, the nearest tile: of the tiles whose box contains the centroid of
\* the cell, the one whose center is nearest (the first of them on a tie)
AssignedFOV(c, fovBoxes) ==
    LET c2 == Center2(get_bounding_box(c))
        holds == {f \in DOMAIN fovBoxes :
                    2 * fovBoxes[f][1] <= c2 /\ c2 <= 2 * fovBoxes[f][3]}
        dist(f) == Abs(c2 - Center2(fovBoxes[f]))
    IN CHOOSE f \in holds :
          \A g \in holds : dist(f) < dist(g) \/ (dist(f) = dist(g) /\ f <= g)

GraphNode(c, fovBoxes) ==
    [cell_id |-> get_feature_id(c), originalFOV |-> c.fov,
     assignedFOV |-> AssignedFOV(c, fovBoxes)]

\* two features of different tiles whose geometries intersect
Overlaps(a, b) == a.fov # b.fov /\ Pts(a) \cap Pts(b) # {}

\* construct_graph: step 3 for the cells of one tile. The index gives the
\* candidates whose boxes intersect the box of a cell; every cell is a node,
\* and so is every candidate of another tile that its geometry intersects,
\* with an edge between the two.
construct_graph(g, cells, tree, currentFOV, allFOVs, fovBoxes) ==
    LET mine == {cells[i] : i \in 1 .. Len(cells)}
        hits(c) == {e.obj : e \in {t \in tree :
                        BoxIntersects(t.bbox, get_bounding_box(c))}}
        pairs == {<<c, d>> \in mine \X {t.obj : t \in tree} :
                        d \in hits(c) /\ Overlaps(c, d)}
    IN [nodes |-> g.nodes
                  \cup {GraphNode(c, fovBoxes) : c \in mine}
                  \cup {GraphNode(p[2], fovBoxes) : p \in pairs},
        edges |-> g.edges
                  \cup {{get_feature_id(p[1]), get_feature_id(p[2])} : p \in pairs}]

\* the ids a node reaches along the edges
RECURSIVE Reach(_, _)
Reach(S, edges) ==
    LET T == S \cup {y \in UNION edges : \E x \in S : {x, y} \in edges}
    IN IF T = S THEN S ELSE Reach(T, edges)

ConnectedComponents(g) ==
    {{n \in g.nodes : n.cell_id \in Reach({m.cell_id}, g.edges)} : m \in g.nodes}

VolumeOfId(id) == get_volume([fov |-> id[1], k |-> id[2]])

\* the fallback order: the larger volume, then the lower feature id
Better(n, m) ==
    \/ VolumeOfId(n.cell_id) > VolumeOfId(m.cell_id)
    \/ /\ VolumeOfId(n.cell_id) = VolumeOfId(m.cell_id)
       /\ (n.cell_id = m.cell_id \/ IdLess(n.cell_id, m.cell_id))

\* step 5 for one connected component: the node whose originating tile is
\* its assigned tile, and by the fallback order when there is none or more
\* than one
KeptOf(component) ==
    LET own == {n \in component : n.originalFOV = n.assignedFOV}
        from == IF own # {} THEN own ELSE component
    IN CHOOSE n \in from : \A m \in from : Better(n, m)

\* remove_overlapping_cells: the table of the surviving cells, one row
\* (cell_id, originalFOV, assignedFOV) for every connected component
remove_overlapping_cells(g) ==
    {KeptOf(component) : component \in ConnectedComponents(g)}

(***************************************************************************)
(* The tasks and their order (segment.py; the executor that runs a task    *)
(* once the tasks it depends on are complete is not part of these files).  *)
(***************************************************************************)
\* WatershedSegment.get_dependencies
WatershedDependencies == {"warp_task", "global_align_task"}

\* CleanCellBoundaries.get_dependencies
CleanDependenciesNoSegment == {"global_align_task"}
CleanDependencies == {"segment_task", "global_align_task"}

\* WatershedSegment.fragment_count: one fragment per field of view
fragment_count == Cardinality(FOVs)

\* a task is complete once it has run; a parallel task once every one of
\* its fragments has
IsComplete(task) ==
    CASE task = "warp_task" -> warpDone
      [] task = "global_align_task" -> alignDone
      [] task = "segment_task" ->
            \A f \in 0 .. (fragment_count - 1) : segStatus[f] = "done"
      [] task = "cleaning_task" -> cleanPc = "done"
      [] OTHER -> FALSE

\* the executor starts a task only behind the tasks it depends on
DependenciesComplete(deps) == \A t \in deps : IsComplete(t)

cleanLocals == <<cleanIdx, spatialTree, count, idToNum, graph, cleanedCells>>
cleanVars == <<cleanPc, cleanLocals, cleanFailedAt, persisted>>
segVars == <<segStatus, segDB, nResets>>

RunWarp ==
    /\ ~warpDone
    /\ warpDone' = TRUE
    /\ UNCHANGED notPipe
    /\ UNCHANGED <<alignDone, segVars, cleanVars>>

RunGlobalAlign ==
    /\ ~alignDone
    /\ alignDone' = TRUE
    /\ UNCHANGED notPipe
    /\ UNCHANGED <<warpDone, segVars, cleanVars>>

\* a fragment of WatershedSegment is started
StartSegment(f) ==
    /\ segStatus[f] = "idle"
    /\ DependenciesComplete(WatershedDependencies)
    /\ segStatus' = [segStatus EXCEPT ![f] = "running"]
    /\ UNCHANGED notPipe
    /\ UNCHANGED <<warpDone, alignDone, segDB, nResets, cleanVars>>

\* WatershedSegment._run_analysis(fragmentIndex): the features of the
\* watershed of this field of view are written under fragmentIndex
WatershedRunAnalysis(f, featureList) ==
    /\ segStatus[f] = "running"
    /\ segDB' = write_features(segDB, featureList, f)
    /\ segStatus' = [segStatus EXCEPT ![f] = "done"]
    /\ UNCHANGED notPipe
    /\ UNCHANGED <<warpDone, alignDone, nResets, cleanVars>>

RunSegment(f) == \E featureList \in SUBSET CellsOf(f) : WatershedRunAnalysis(f, featureList)

\* _run_analysis raises before line 110: nothing was written
FailSegment(f) ==
    /\ segStatus[f] = "running"
    /\ segStatus' = [segStatus EXCEPT ![f] = "failed"]
    /\ UNCHANGED notPipe
    /\ UNCHANGED <<warpDone, alignDone, segDB, nResets, cleanVars>>

\* FeatureSavingAnalysisTask._reset_analysis(fragmentIndex)
ResetAnalysisAll(f) ==
    /\ segStatus[f] \in {"done", "failed"}
    /\ cleanPc = "idle"
    /\ nResets < MaxResets
    /\ nResets' = nResets + 1
    /\ segDB' = empty_database(segDB, -1)
    /\ segStatus' = [segStatus EXCEPT ![f] = "idle"]
    /\ UNCHANGED notPipe
    /\ UNCHANGED <<warpDone, alignDone, cleanVars>>

ResetAnalysis(f) ==
    /\ segStatus[f] \in {"done", "failed"}
    /\ cleanPc = "idle"
    /\ nResets < MaxResets
    /\ nResets' = nResets + 1
    /\ segDB' = empty_database(segDB, f)
    /\ segStatus' = [segStatus EXCEPT ![f] = "idle"]
    /\ UNCHANGED notPipe
    /\ UNCHANGED <<warpDone, alignDone, cleanVars>>

(***************************************************************************)
(* CleanCellBoundaries._run_analysis, a loop iteration at a time.          *)
(***************************************************************************)
\* CleanCellBoundaries.get_fov_boxes
get_fov_boxes_reversed == [f \in FOVs |-> fov_global_extent(NumFOVs - 1 - f)]

get_fov_boxes == [f \in FOVs |-> fov_global_extent(f)]

\* CleanCellBoundaries._intial_clean
intial_clean(db, currentFOV) ==
    SelectSeq(read_features(db, currentFOV), LAMBDA cell :
        Len(get_bounding_box(cell)) = 4 /\ get_volume(cell) > 0)

\* lines 184-187: the run starts with an empty index and no handles
CleanStart ==
    /\ cleanPc \in {"idle", "failed"}
    /\ DependenciesComplete(CleanDependencies)
    /\ cleanPc' = "tree"
    /\ cleanIdx' = 0
    /\ spatialTree' = {}
    /\ count' = 0
    /\ idToNum' = <<>>
    /\ graph' = EmptyGraph
    /\ cleanedCells' = NoTable
    /\ cleanFailedAt' = "none"
    /\ UNCHANGED notPipe
    /\ UNCHANGED <<warpDone, alignDone, segVars, persisted>>

\* lines 188-194, one field of view
TreeStepNoClean(currentFOV) ==
    construct_tree(read_features(segDB, currentFOV), spatialTree, count, idToNum)

TreeStepNoInsert(currentFOV) ==
    [tree |-> spatialTree, count |-> count, idToNum |-> idToNum]

TreeStepResult(currentFOV) ==
    construct_tree(simple_clean_cells(read_features(segDB, currentFOV)),
                   spatialTree, count, idToNum)

CleanTreeStep ==
    /\ cleanPc = "tree"
    /\ cleanIdx < NumFOVs
    /\ LET r == TreeStepResult(cleanIdx)
       IN /\ spatialTree' = r.tree
          /\ count' = r.count
          /\ idToNum' = r.idToNum
    /\ cleanIdx' = cleanIdx + 1
    /\ UNCHANGED notPipe
    /\ UNCHANGED <<warpDone, alignDone, segVars, cleanPc, graph, cleanedCells,
                   cleanFailedAt, persisted>>

\* lines 196-197: the first loop is over, the graph is created
CleanInitGraph ==
    /\ cleanPc = "tree"
    /\ cleanIdx = NumFOVs
    /\ cleanPc' = "graph"
    /\ cleanIdx' = 0
    /\ graph' = EmptyGraph
    /\ UNCHANGED notPipe
    /\ UNCHANGED <<warpDone, alignDone, segVars, spatialTree, count, idToNum,
                   cleanedCells, cleanFailedAt, persisted>>

\* lines 198-204, one field of view
GraphStepResult(currentFOV) ==
    construct_graph(graph, simple_clean_cells(read_features(segDB, currentFOV)),
                    spatialTree, currentFOV, FOVs, get_fov_boxes)

CleanGraphStepCheckpoint ==
    /\ cleanPc = "graph"
    /\ cleanIdx < NumFOVs
    /\ graph' = GraphStepResult(cleanIdx)
    /\ cleanIdx' = cleanIdx + 1
    /\ persisted' = save_dataframe_to_csv(persisted,
                        remove_overlapping_cells(graph'), "cleanedcells")
    /\ UNCHANGED notPipe
    /\ UNCHANGED <<warpDone, alignDone, segVars, cleanPc, spatialTree, count,
                   idToNum, cleanedCells, cleanFailedAt>>

CleanGraphStepInterleaved ==
    /\ cleanPc = "graph"
    /\ cleanIdx < NumFOVs
    /\ graph' = GraphStepResult(cleanIdx)
    /\ LET r == TreeStepResult(cleanIdx)
       IN /\ spatialTree' = r.tree
          /\ count' = r.count
          /\ idToNum' = r.idToNum
    /\ cleanIdx' = cleanIdx + 1
    /\ UNCHANGED notPipe
    /\ UNCHANGED <<warpDone, alignDone, segVars, cleanPc, cleanedCells,
                   cleanFailedAt, persisted>>

CleanGraphStep ==
    /\ cleanPc = "graph"
    /\ cleanIdx < NumFOVs
    /\ graph' = GraphStepResult(cleanIdx)
    /\ cleanIdx' = cleanIdx + 1
    /\ UNCHANGED notPipe
    /\ UNCHANGED <<warpDone, alignDone, segVars, cleanPc, spatialTree, count,
                   idToNum, cleanedCells, cleanFailedAt, persisted>>

\* line 206
CleanResolveKeepAll ==
    /\ cleanPc = "graph"
    /\ cleanIdx = NumFOVs
    /\ cleanedCells' = graph.nodes
    /\ cleanPc' = "resolved"
    /\ UNCHANGED notPipe
    /\ UNCHANGED <<warpDone, alignDone, segVars, cleanIdx, spatialTree, count,
                   idToNum, graph, cleanFailedAt, persisted>>

CleanResolve ==
    /\ cleanPc = "graph"
    /\ cleanIdx = NumFOVs
    /\ cleanedCells' = remove_overlapping_cells(graph)
    /\ cleanPc' = "resolved"
    /\ UNCHANGED notPipe
    /\ UNCHANGED <<warpDone, alignDone, segVars, cleanIdx, spatialTree, count,
                   idToNum, graph, cleanFailedAt, persisted>>

\* lines 208-209: the table is saved and the task is over
CleanSave ==
    /\ cleanPc = "resolved"
    /\ persisted' = save_dataframe_to_csv(persisted, cleanedCells, "cleanedcells")
    /\ cleanPc' = "done"
    /\ UNCHANGED notPipe
    /\ UNCHANGED <<warpDone, alignDone, segVars, cleanLocals, cleanFailedAt>>

\* an exception ends the run at any line; its locals are lost with it
CleanFail ==
    /\ cleanPc \in {"tree", "graph", "resolved"}
    /\ cleanPc' = "failed"
    /\ cleanFailedAt' = cleanPc
    /\ cleanIdx' = 0
    /\ spatialTree' = {}
    /\ count' = 0
    /\ idToNum' = <<>>
    /\ graph' = EmptyGraph
    /\ cleanedCells' = NoTable
    /\ UNCHANGED notPipe
    /\ UNCHANGED <<warpDone, alignDone, segVars, persisted>>

PipeInit ==
    /\ warpDone = FALSE
    /\ alignDone = FALSE
    /\ segStatus = [f \in FOVs |-> "idle"]
    /\ segDB = [f \in FOVs |-> {}]
    /\ nResets = 0
    /\ cleanPc = "idle"
    /\ cleanIdx = 0
    /\ spatialTree = {}
    /\ count = 0
    /\ idToNum = <<>>
    /\ graph = EmptyGraph
    /\ cleanedCells = NoTable
    /\ cleanFailedAt = "none"
    /\ persisted = NoFiles
    /\ refineStatus = [f \in FOVs |-> "idle"]
    /\ refinedDB = [f \in FOVs |-> {}]

DecIdle ==
    /\ decPc = "idle"
    /\ decoder = <<>>
    /\ decCall = <<>>
    /\ decResult = <<>>

ExtIdle ==
    /\ extCall = <<>>
    /\ extResult = <<>>

Init == PipeInit /\ DecIdle /\ ExtIdle /\ RefIdle /\ NormIdle

Next ==
    \/ RunWarp
    \/ RunGlobalAlign
    \/ \E f \in FOVs : StartSegment(f)
    \/ \E f \in FOVs : RunSegment(f)
    \/ \E f \in FOVs : FailSegment(f)
    \/ \E f \in FOVs : ResetAnalysis(f)
    \/ CleanStart
    \/ CleanTreeStep
    \/ CleanInitGraph
    \/ CleanGraphStep
    \/ CleanResolve
    \/ CleanSave
    \/ CleanFail

Spec == Init /\ [][Next]_vars

(***************************************************************************)
(* The deduplication and the refinement behind a completed segmentation:   *)
(* CleanCellBoundaries, then RefineCellDatabases per field of view.        *)
(***************************************************************************)
\* the well-formed cells the segmentation of a tile has stored, the cell
\* found again in the next tile among them
DedupShapes == {0, 1, 2, 4}
DedupCellsOf(f) == {[fov |-> f, k |-> k] : k \in DedupShapes}

\* str(x): the text of a feature id
Str(id) == [str |-> id]

\* dataSet.load_dataframe_from_csv(name): the table of the file; the cell
\* ids, read back from text, are strings
load_dataframe_from_csv(files, name) ==
    {[cell_id |-> Str(r.cell_id), originalFOV |-> r.originalFOV,
      assignedFOV |-> r.assignedFOV] : r \in files[name]}

\* CleanCellBoundaries.return_exported_data
return_exported_data == load_dataframe_from_csv(persisted, "cleanedcells")

\* RefineCellDatabases.get_dependencies
RefineDependencies == {"segment_task", "cleaning_task"}

\* lines 243-248: the groups of cleanedC by assignedFOV, in the order of
\* their keys, each written by a write_features call of its own
RECURSIVE WriteGroups(_, _, _, _, _)
WriteGroups(featureDB, keys, cleanedC, originalCells, fragmentIndex) ==
    IF keys = {} THEN featureDB
    ELSE LET k == SetMin(keys)
             cellsToConsider == {r.cell_id : r \in {g \in cleanedC : g.assignedFOV = k}}
             featureList == SelectSeq(originalCells, LAMBDA x :
                                Str(get_feature_id(x)) \in cellsToConsider)
         IN WriteGroups(write_features(featureDB,
                            {featureList[i] : i \in DOMAIN featureList},
                            fragmentIndex),
                        keys \ {k}, cleanedC, originalCells, fragmentIndex)

\* RefineCellDatabases._run_analysis(fragmentIndex)
RefineByAssignedFOV(fragmentIndex) ==
    LET cleaned == return_exported_data
        originalCells == read_features(segDB, fragmentIndex)
        cleanedC == {r \in cleaned : r.assignedFOV = fragmentIndex}
    IN WriteGroups(refinedDB, {r.assignedFOV : r \in cleanedC}, cleanedC,
                   originalCells, fragmentIndex)

RefineResult(fragmentIndex) ==
    LET cleaned == return_exported_data
        originalCells == read_features(segDB, fragmentIndex)
        cleanedC == {r \in cleaned : r.originalFOV = fragmentIndex}
    IN WriteGroups(refinedDB, {r.assignedFOV : r \in cleanedC}, cleanedC,
                   originalCells, fragmentIndex)

RefineRunAnalysis(fragmentIndex) ==
    /\ refineStatus[fragmentIndex] = "idle"
    /\ DependenciesComplete(RefineDependencies)
    /\ refinedDB' = RefineResult(fragmentIndex)
    /\ refineStatus' = [refineStatus EXCEPT ![fragmentIndex] = "done"]
    /\ UNCHANGED <<warpDone, alignDone, segVars, cleanVars>>
    /\ UNCHANGED <<decVars, extVars, refVars, normVars>>

\* the segmentation of every tile is complete, with whatever cells it found
InitDedup ==
    /\ warpDone = TRUE
    /\ alignDone = TRUE
    /\ segStatus = [f \in FOVs |-> "done"]
    /\ \E found \in SUBSET (UNION {DedupCellsOf(f) : f \in FOVs}) :
          segDB = [f \in FOVs |-> found \cap DedupCellsOf(f)]
    /\ nResets = 0
    /\ cleanPc = "idle"
    /\ cleanIdx = 0
    /\ spatialTree = {}
    /\ count = 0
    /\ idToNum = <<>>
    /\ graph = EmptyGraph
    /\ cleanedCells = NoTable
    /\ cleanFailedAt = "none"
    /\ persisted = NoFiles
    /\ refineStatus = [f \in FOVs |-> "idle"]
    /\ refinedDB = [f \in FOVs |-> {}]
    /\ DecIdle /\ ExtIdle /\ RefIdle /\ NormIdle

NextDedup ==
    \/ CleanStart
    \/ CleanTreeStep
    \/ CleanInitGraph
    \/ CleanGraphStep
    \/ CleanResolve
    \/ CleanSave
    \/ \E f \in FOVs : RefineRunAnalysis(f)

SpecDedup == InitDedup /\ [][NextDedup]_vars

(***************************************************************************)
(* PixelBasedDecoder (decoding.py): construction and decode_pixels.        *)
(* Real numbers are fixed-point integers in units of 1/FP; an optional     *)
(* argument is the empty set for None and {v} for the value v.             *)
(***************************************************************************)
None == {}
Some(v) == {v}
ValueOf(opt) == CHOOSE v \in opt : TRUE

\* the integer square root, by Newton's iteration
RECURSIVE SqrtIter(_, _)
SqrtIter(n, x) ==
    LET y == (x + (n \div x)) \div 2
    IN IF y >= x THEN x ELSE SqrtIter(n, y)

ISqrt(n) == IF n = 0 THEN 0 ELSE SqrtIter(n, n)

RECURSIVE SumSeq(_)
SumSeq(q) == IF q = <<>> THEN 0 ELSE Head(q) + SumSeq(Tail(q))

\* np.linalg.norm of a fixed-point vector
Norm(x) == ISqrt(SumSeq([i \in DOMAIN x |-> x[i] * x[i]]))

Min2(a, b) == IF a <= b THEN a ELSE b

\* codebook.get_barcodes(): the codebooks of the model, over two bits; the
\* second holds a barcode with no bit on
Codebooks ==
    { << <<1, 0>>, <<0, 1>> >>,
      << <<1, 1>>, <<0, 1>>, <<0, 0>> >> }

\* normalize(x) of a barcode of integers, in fixed point
normalize(x) ==
    LET xf == [i \in DOMAIN x |-> x[i] * FP]
        norm == Norm(xf)
    IN IF norm > 0 THEN [i \in DOMAIN x |-> (xf[i] * FP) \div norm]
       ELSE xf

\* _calculate_normalized_barcodes with includeErrors = False
calculate_normalized_barcodes(codebook) ==
    [b \in DOMAIN codebook |-> normalize(codebook[b])]

\* the vectors a caller passes as scaleFactors or backgrounds: of the bit
\* count, one shorter, one longer
ScaleVectors == {<<1, 2>>, <<2>>, <<2, 1, 1>>}
BackgroundVectors == {<<0, 1>>, <<1>>, <<1, 0, 0>>}

\* np.ones(n), np.zeros(n)
Ones(n) == [i \in 1 .. n |-> 1]
Zeros(n) == [i \in 1 .. n |-> 0]

\* PixelBasedDecoder.__init__
NewDecoder(codebook, scaleFactors, backgrounds) ==
    LET decodingMatrix == calculate_normalized_barcodes(codebook)
        bitCount == Len(decodingMatrix[1])
    IN [codebook |-> codebook,
        decodingMatrix |-> decodingMatrix,
        barcodeCount |-> Len(decodingMatrix),
        bitCount |-> bitCount,
        scaleFactors |-> IF scaleFactors = None THEN Ones(bitCount)
                         ELSE ValueOf(scaleFactors),
        backgrounds |-> IF backgrounds = None THEN Zeros(bitCount)
                        ELSE ValueOf(backgrounds),
        refactorAreaThreshold |-> 4]

Construct(codebook, scaleFactors, backgrounds) ==
    /\ decPc = "new"
    /\ decoder' = NewDecoder(codebook, scaleFactors, backgrounds)
    /\ decPc' = "constructed"
    /\ UNCHANGED <<decCall, decResult>>
    /\ UNCHANGED notDec

\* a value as np.int16 holds it
ToInt16(i) == ((i + 32768) % 65536) - 32768

\* the pixels of an image, flattened as np.reshape does
Pixels == 1 .. NumPixels

\* the intensities of a filtered image
Intensities == 0 .. 2

\* the thresholds of the calls: 0, the default 0.5176 and 1 for the
\* distance; the default 1 and 2 for the magnitude
DistanceThresholds == {0, (5176 * FP) \div 10000, FP}
MagnitudeThresholds == {FP, 2 * FP}

\* lines 102-104: the traces with the background subtracted and the scale
\* divided out, as many bits as zip pairs up
ScaledPixelTraces(pixelTraces, scaleFactors, backgrounds) ==
    LET m == Min2(Len(pixelTraces), Min2(Len(scaleFactors), Len(backgrounds)))
    IN [px \in Pixels |->
          [i \in 1 .. m |->
              ((pixelTraces[i][px] - backgrounds[i]) * FP) \div scaleFactors[i]]]

\* lines 106-108: the norm of every trace, and 1 where it is 0
PixelMagnitudes(scaledPixelTraces) ==
    [px \in Pixels |->
        LET n == Norm(scaledPixelTraces[px]) IN IF n = 0 THEN FP ELSE n]

\* the Euclidean distance of two fixed-point vectors
Distance(x, y) == Norm([i \in DOMAIN x |-> x[i] - y[i]])

\* lines 112-116: NearestNeighbors.kneighbors, the distance to the nearest
\* row of the decoding matrix and its index (from 0)
KNeighbors(matrix, x) ==
    LET d(b) == Distance(x, matrix[b])
        best == CHOOSE b \in DOMAIN matrix :
                    \A c \in DOMAIN matrix : d(b) < d(c) \/ (d(b) = d(c) /\ b <= c)
    IN [distance |-> d(best), index |-> best - 1]

\* line 119
DecodeLabelNearest(index, distance, distanceThreshold) == index

DecodeLabel(index, distance, distanceThreshold) ==
    IF distance <= distanceThreshold THEN index ELSE -1

\* line 129
MaskLowMagnitude(label, magnitude, magnitudeThreshold) ==
    IF magnitude < magnitudeThreshold THEN -1 ELSE label

\* decode_pixels: an error when the traces have fewer bits than the
\* decoding matrix (kneighbors raises), else the four images
decode_pixels(self, filteredImages, scaleFactorsArg, backgroundsArg, distanceThreshold, magnitudeThreshold) ==
    LET scaleFactors == IF scaleFactorsArg = None THEN self.scaleFactors
                        ELSE ValueOf(scaleFactorsArg)
        backgrounds == IF backgroundsArg = None THEN self.backgrounds
                       ELSE ValueOf(backgroundsArg)
        scaledPixelTraces ==
            ScaledPixelTraces(filteredImages, scaleFactors, backgrounds)
        pixelMagnitudes == PixelMagnitudes(scaledPixelTraces)
        normalizedPixelTraces ==
            [px \in Pixels |->
                [i \in DOMAIN scaledPixelTraces[px] |->
                    (scaledPixelTraces[px][i] * FP) \div pixelMagnitudes[px]]]
        nn == [px \in Pixels |->
                  KNeighbors(self.decodingMatrix, normalizedPixelTraces[px])]
    IN IF \E px \in Pixels : Len(scaledPixelTraces[px]) # self.bitCount
       THEN [error |-> TRUE]
       ELSE [error |-> FALSE,
             decodedImage |-> [px \in Pixels |->
                 MaskLowMagnitude(
                     ToInt16(DecodeLabel(nn[px].index, nn[px].distance,
                                         distanceThreshold)),
                     pixelMagnitudes[px], magnitudeThreshold)],
             pixelMagnitudes |-> pixelMagnitudes,
             normalizedPixelTraces |-> normalizedPixelTraces,
             distances |-> [px \in Pixels |-> nn[px].distance]]

\* the filtered images of a call: one image per bit of the codebook, the
\* output of cv2.GaussianBlur on whatever the caller passed
FilteredImages(bitCount) == [1 .. bitCount -> [Pixels -> Intensities]]

DecodePixels ==
    /\ decPc = "constructed"
    /\ \E img \in FilteredImages(Len(decoder.codebook[1])),
          dt \in DistanceThresholds, mt \in MagnitudeThresholds :
        /\ decCall' = [imageData |-> img, distanceThreshold |-> dt,
                       magnitudeThreshold |-> mt]
        /\ decResult' = decode_pixels(decoder, img, None, None, dt, mt)
        /\ decPc' = IF decResult'.error THEN "error" ELSE "decoded"
    /\ UNCHANGED decoder
    /\ UNCHANGED notDec

DecInit ==
    /\ decPc = "new"
    /\ decoder = <<>>
    /\ decCall = <<>>
    /\ decResult = <<>>

PipeIdle ==
    /\ warpDone = FALSE
    /\ alignDone = FALSE
    /\ segStatus = [f \in FOVs |-> "idle"]
    /\ segDB = [f \in FOVs |-> {}]
    /\ nResets = 0
    /\ cleanPc = "off"
    /\ cleanIdx = 0
    /\ spatialTree = {}
    /\ count = 0
    /\ idToNum = <<>>
    /\ graph = EmptyGraph
    /\ cleanedCells = NoTable
    /\ cleanFailedAt = "none"
    /\ persisted = NoFiles
    /\ refineStatus = [f \in FOVs |-> "idle"]
    /\ refinedDB = [f \in FOVs |-> {}]

InitDecode ==
    /\ PipeIdle
    /\ DecInit
    /\ extCall = <<>> /\ extResult = <<>>
    /\ RefIdle
    /\ NormIdle

NextDecode ==
    \/ \E cb \in Codebooks,
          sf \in {None} \cup {Some(v) : v \in ScaleVectors},
          bg \in {None} \cup {Some(v) : v \in BackgroundVectors} :
            Construct(cb, sf, bg)
    \/ DecodePixels

SpecDecode == InitDecode /\ [][NextDecode]_vars

(***************************************************************************)
(* PixelBasedDecoder.extract_barcodes_with_index.  A pixel is <<z, r, c>>; *)
(* a 2D image has the plane z = 0 alone.  A centroid is a sequence of      *)
(* fractions [n, d], one per axis of the image.                            *)
(***************************************************************************)
Frac(n, d) == [n |-> n, d |-> d]
FracLess(a, b) == a.n * b.d < b.n * a.d

\* the pixels of an image of the given shape
ImagePixels(planes) == (0 .. (planes - 1)) \X (0 .. (ExtRows - 1)) \X (0 .. (ExtCols - 1))

\* measure.label connects the pixels that touch, corners included
Touch(a, b) ==
    \A i \in 1 .. 3 : a[i] - b[i] \in {-1, 0, 1}

RECURSIVE Grow(_, _)
Grow(S, mask) ==
    LET T == S \cup {q \in mask : \E a \in S : Touch(a, q)}
    IN IF T = S THEN S ELSE Grow(T, mask)

\* measure.label: the connected regions of a mask
Regions(mask) == {Grow({a}, mask) : a \in mask}

\* the axes regionprops reports of a pixel: (r, c) in 2D, (z, r, c) in 3D
Coords(ndim, a) == IF ndim = 2 THEN <<a[2], a[3]>> ELSE a

RECURSIVE SumOver(_, _, _)
SumOver(S, w, i) ==
    IF S = {} THEN 0
    ELSE LET a == CHOOSE x \in S : TRUE
         IN w[a] * i[a] + SumOver(S \ {a}, w, i)

\* regionprops.centroid: the mean of the coordinates
Centroid(ndim, region) ==
    [ax \in 1 .. ndim |->
        Frac(SumOver(region, [a \in region |-> 1],
                     [a \in region |-> Coords(ndim, a)[ax]]),
             Cardinality(region))]

\* regionprops.weighted_centroid: the mean weighted by the intensity image
WeightedCentroid(ndim, region, intensity) ==
    [ax \in 1 .. ndim |->
        Frac(SumOver(region, intensity,
                     [a \in region |-> Coords(ndim, a)[ax]]),
             SumOver(region, intensity, [a \in region |-> 1]))]

\* PixelBasedDecoder._position_within_crop
position_within_crop(position, cropWidth, imageSize) ==
    IF Len(position) = 2
    THEN /\ FracLess(Frac(cropWidth, 1), position[1])
         /\ FracLess(position[1], Frac(imageSize[1] - cropWidth, 1))
         /\ FracLess(Frac(cropWidth, 1), position[2])
         /\ FracLess(position[2], Frac(imageSize[2] - cropWidth, 1))
    ELSE /\ FracLess(Frac(cropWidth, 1), position[2])
         /\ FracLess(position[2], Frac(imageSize[2] - cropWidth, 1))
         /\ FracLess(Frac(cropWidth, 1), position[3])
         /\ FracLess(position[3], Frac(imageSize[3] - cropWidth, 1))

\* globalAligner.fov_coordinates_to_global(fov, centroid): the tile's
\* local-to-global transform of a centroid (z, x, y), a translation in x
\* and y by the offset of the tile
fov_coordinates_to_global(globalAligner, fov, centroid) ==
    <<centroid[1],
      Frac(centroid[2].n + globalAligner.dx * centroid[2].d, centroid[2].d),
      Frac(centroid[3].n + globalAligner.dy * centroid[3].d, centroid[3].d)>>

\* segmenter.get_cell_containing_position(x, y): the id of the cell that
\* contains the global position, or None
get_cell_containing_position(segmenter, x, y) ==
    IF \E cell \in segmenter :
            /\ ~FracLess(x, Frac(cell.minx, 1)) /\ ~FracLess(Frac(cell.maxx, 1), x)
            /\ ~FracLess(y, Frac(cell.miny, 1)) /\ ~FracLess(Frac(cell.maxy, 1), y)
    THEN Some((CHOOSE cell \in segmenter :
            /\ ~FracLess(x, Frac(cell.minx, 1)) /\ ~FracLess(Frac(cell.maxx, 1), x)
            /\ ~FracLess(y, Frac(cell.miny, 1)) /\ ~FracLess(Frac(cell.maxy, 1), y)).id)
    ELSE None

\* PixelBasedDecoder._bc_properties_to_dict, its columns barcode_id, fov,
\* area, x, y, z, global_x, global_y, global_z and cell_index; cell_index
\* holds a Python value, Some(i) for the integer i
bc_properties_to_dict(ndim, region, intensity, bcIndex, fov, zIndex, globalAligner, segmenter) ==
    LET inputCentroid == WeightedCentroid(ndim, region, intensity)
        centroid == IF Len(inputCentroid) = 2
                    THEN <<Frac(zIndex, 1), inputCentroid[2], inputCentroid[1]>>
                    ELSE <<inputCentroid[1], inputCentroid[3], inputCentroid[2]>>
        globalCentroid ==
            IF globalAligner # None
            THEN fov_coordinates_to_global(ValueOf(globalAligner), fov, centroid)
            ELSE centroid
    IN [barcode_id |-> bcIndex,
        fov |-> fov,
        area |-> Cardinality(region),
        x |-> centroid[2],
        y |-> centroid[3],
        z |-> centroid[1],
        global_x |-> globalCentroid[2],
        global_y |-> globalCentroid[3],
        global_z |-> globalCentroid[1],
        cell_index |-> IF segmenter # None
                       THEN get_cell_containing_position(ValueOf(segmenter),
                                globalCentroid[1], globalCentroid[2])
                       ELSE Some(-1)]

\* the order in which a scan of the image meets two pixels
PixelLess(a, b) ==
    \/ a[1] < b[1]
    \/ (a[1] = b[1] /\ a[2] < b[2])
    \/ (a[1] = b[1] /\ a[2] = b[2] /\ a[3] < b[3])

\* the first pixel of a region in the order of the scan
FirstPixel(region) ==
    CHOOSE a \in region : \A b \in region : a = b \/ PixelLess(a, b)

\* the regions as regionprops lists them, by their first pixels
RECURSIVE RegionList(_)
RegionList(regions) ==
    IF regions = {} THEN <<>>
    ELSE LET r == CHOOSE x \in regions : \A y \in regions :
                    x = y \/ PixelLess(FirstPixel(x), FirstPixel(y))
         IN <<r>> \o RegionList(regions \ {r})

\* decodedImage.shape
ImageShape(ndim, planes) ==
    IF ndim = 2 THEN <<ExtRows, ExtCols>> ELSE <<planes, ExtRows, ExtCols>>

\* extract_barcodes_with_index: lines 169-182
extract_barcodes_with_index(barcodeIndex, ndim, planes, decodedImage, pixelMagnitudes, fov, cropWidth, zIndex, globalAligner, segmenter, minimumArea) ==
    LET mask == {a \in ImagePixels(planes) : decodedImage[a] = barcodeIndex}
        properties == RegionList(Regions(mask))
        kept == SelectSeq(properties, LAMBDA p :
                    /\ position_within_crop(Centroid(ndim, p), cropWidth,
                                            ImageShape(ndim, planes))
                    /\ Cardinality(p) >= minimumArea)
    IN [i \in DOMAIN kept |->
            bc_properties_to_dict(ndim, kept[i], pixelMagnitudes, barcodeIndex,
                                  fov, zIndex, globalAligner, segmenter)]

\* the decoded images of the model: a plane of pixels that hold barcode 0
\* or nothing; a 3D image stacks a second plane on it, empty or the same
DecodedPlanes == [ImagePixels(1) -> {-1, 0}]

DecodedImage(plane, ndim, second) ==
    IF ndim = 2 THEN plane
    ELSE [a \in ImagePixels(2) |->
            IF a[1] = 0 THEN plane[<<0, a[2], a[3]>>]
            ELSE IF second THEN plane[<<0, a[2], a[3]>>] ELSE -1]

\* the magnitude images of the model: 1 everywhere but for at most one
\* bright pixel
MagnitudeImage(planes, bright) ==
    [a \in ImagePixels(planes) |-> IF {a} = bright THEN 9 ELSE 1]

\* the globalAligner and the segmenter of a call: neither, the lookup over
\* one cell alone, or that lookup with a tile offset by two pixels in x
Collaborators ==
    LET segmenter == Some({[id |-> 7, minx |-> 1, maxx |-> 4, miny |-> 1, maxy |-> 2]})
    IN {<<None, None>>, <<None, segmenter>>, <<Some([dx |-> 2, dy |-> 0]), segmenter>>}

\* the calls of the model: the decoded image, the magnitudes and the
\* arguments of extract_barcodes_with_index
ExtCalls ==
    {[barcodeIndex |-> 0, ndim |-> shape[1], planes |-> shape[2],
      decodedImage |-> DecodedImage(pb[1], shape[1], shape[3]),
      pixelMagnitudes |-> MagnitudeImage(shape[2], pb[2]),
      fov |-> 0, cropWidth |-> cropWidth, zIndex |-> 0,
      globalAligner |-> with[1], segmenter |-> with[2],
      minimumArea |-> minimumArea] :
        pb \in {x \in DecodedPlanes \X ({{}} \cup {{a} : a \in ImagePixels(1)}) :
                    \A a \in x[2] : x[1][a] = 0},
        shape \in {<<2, 1, FALSE>>, <<3, 2, FALSE>>, <<3, 2, TRUE>>},
        cropWidth \in {0, 1}, minimumArea \in {0, 2}, with \in Collaborators}

\* the call returns its data frame
ExtractBarcodes ==
    /\ extCall # <<>>
    /\ extResult = <<>>
    /\ extResult' = [rows |-> extract_barcodes_with_index(
                            extCall.barcodeIndex, extCall.ndim, extCall.planes,
                            extCall.decodedImage, extCall.pixelMagnitudes,
                            extCall.fov, extCall.cropWidth, extCall.zIndex,
                            extCall.globalAligner, extCall.segmenter,
                            extCall.minimumArea)]
    /\ UNCHANGED extCall
    /\ UNCHANGED notExt

InitExtract ==
    /\ PipeIdle
    /\ decPc = "idle" /\ decoder = <<>> /\ decCall = <<>> /\ decResult = <<>>
    /\ extCall \in ExtCalls
    /\ extResult = <<>>
    /\ RefIdle
    /\ NormIdle

NextExtract == ExtractBarcodes

SpecExtract == InitExtract /\ [][NextExtract]_vars

(***************************************************************************)
(* PixelBasedDecoder.extract_refactors with extractBackgrounds = False.    *)
(* A float is {} for not-a-number and {v} for the fixed-point value v.     *)
(***************************************************************************)
NaN == {}
Num(v) == {v}
IsNaN(x) == x = {}

\* the pixels <<0, r, c>> of the decoded image of a calibration
RefPixels == {0} \X (0 .. (RefRows - 1)) \X (0 .. (RefCols - 1))

\* the codebook of the calibration: three bits, the first on in both
\* barcodes
RefCodebook == << <<1, 1, 0>>, <<1, 0, 1>> >>

\* the decoder of the calibration, with the default scales and backgrounds
RefDecoder == NewDecoder(RefCodebook, None, None)

\* the intensities of the bits of a calibration image
Gains == {<<2, 2, 2>>, <<4, 2, 2>>}

\* the trace of a pixel before its normalization: the bits of its barcode
\* at the intensities of the image, and nothing where no barcode is
RawTrace(label, gain) ==
    [i \in 1 .. 3 |-> IF label < 0 THEN 0 ELSE gain[i] * RefCodebook[label + 1][i] * FP]

\* line 106-110 of decode_pixels for one pixel
Magnitude(trace) == LET n == Norm(trace) IN IF n = 0 THEN FP ELSE n
Normalized(trace) == [i \in DOMAIN trace |-> (trace[i] * FP) \div Magnitude(trace)]

RECURSIVE SumTraces(_, _, _)
SumTraces(S, t, i) ==
    IF S = {} THEN 0
    ELSE LET a == CHOOSE x \in S : TRUE
         IN t[a][i] + SumTraces(S \ {a}, t, i)

\* lines 325-329: the mean trace of a region, less the backgrounds, at
\* unit norm; not-a-number in every bit when the norm is 0
NormPixelTrace(region, normalizedPixelTraces, pixelMagnitudes, backgroundRefactors) ==
    LET t == [a \in region |->
                [i \in 1 .. 3 |->
                    (normalizedPixelTraces[a][i] * pixelMagnitudes[a]) \div FP]]
        meanPixelTrace ==
            [i \in 1 .. 3 |->
                (SumTraces(region, t, i) \div Cardinality(region))
                    - backgroundRefactors[i]]
        norm == Norm(meanPixelTrace)
    IN [i \in 1 .. 3 |->
            IF norm = 0 THEN NaN ELSE Num((meanPixelTrace[i] * FP) \div norm)]

\* a + b of floats
FAdd(a, b) == IF IsNaN(a) \/ IsNaN(b) THEN NaN ELSE Num(ValueOf(a) + ValueOf(b))

\* a / n of a float and a positive count
FDivInt(a, n) == IF IsNaN(a) THEN NaN ELSE Num(ValueOf(a) \div n)

\* lines 324-330 over the regions of one barcode
RECURSIVE Accumulate(_, _, _, _, _, _)
Accumulate(row, regions, seen, normalizedPixelTraces, pixelMagnitudes, backgroundRefactors) ==
    IF regions = <<>> THEN row
    ELSE LET npt == NormPixelTrace(Head(regions), normalizedPixelTraces,
                                   pixelMagnitudes, backgroundRefactors)
         IN Accumulate([i \in 1 .. 3 |-> FAdd(row[i], FDivInt(npt[i], seen))],
                       Tail(regions), seen, normalizedPixelTraces,
                       pixelMagnitudes, backgroundRefactors)

\* lines 320-322: the regions of a barcode that are large enough
BarcodeRegions(self, decodedImage, b) ==
    SelectSeq(RegionList(Regions({a \in RefPixels : decodedImage[a] = b})),
              LAMBDA x : Cardinality(x) >= self.refactorAreaThreshold)

\* line 332: the bits that are off in a barcode become not-a-number
MaskOffBits(self, sumPixelTraces, barcodesSeen) ==
    [b \in DOMAIN sumPixelTraces |->
        [i \in 1 .. 3 |->
            IF self.decodingMatrix[b][i] = 0 THEN NaN ELSE sumPixelTraces[b][i]]]

RECURSIVE SumFloats(_)
SumFloats(q) == IF q = <<>> THEN 0 ELSE ValueOf(Head(q)) + SumFloats(Tail(q))

\* np.nanmean of a sequence of floats: not-a-number when all of them are
NanMean(q) ==
    LET nums == SelectSeq(q, LAMBDA x : ~IsNaN(x))
    IN IF nums = <<>> THEN NaN ELSE Num(SumFloats(nums) \div Len(nums))

\* np.mean of a sequence of floats: not-a-number when one of them is, or
\* none is there
Mean(q) ==
    IF q = <<>> \/ \E i \in DOMAIN q : IsNaN(q[i]) THEN NaN
    ELSE Num(SumFloats(q) \div Len(q))

\* a / b of floats: 0/0 and anything over not-a-number are not-a-number
FDiv(a, b) ==
    IF IsNaN(a) \/ IsNaN(b) THEN NaN
    ELSE IF ValueOf(b) = 0 THEN NaN
    ELSE Num((ValueOf(a) * FP) \div ValueOf(b))

\* the arrays of a call before its loop: lines 315-318
RefStart(self) ==
    [backgroundRefactors |-> Zeros(self.bitCount),
     sumPixelTraces |-> [b \in 1 .. self.barcodeCount |->
                            [i \in 1 .. self.bitCount |-> Num(0)]],
     barcodesSeen |-> [b \in 1 .. self.barcodeCount |-> 0],
     onBitIntensity |-> <<>>,
     refactors |-> <<>>]

\* the calibration images of the model: every pixel holds one of the two
\* barcodes or none, with the trace of its barcode
RefCalls ==
    {[decodedImage |-> decodedImage,
      pixelMagnitudes |-> [a \in RefPixels |->
            Magnitude(RawTrace(decodedImage[a], gain))],
      normalizedPixelTraces |-> [a \in RefPixels |->
            Normalized(RawTrace(decodedImage[a], gain))]] :
        decodedImage \in [RefPixels -> {-1, 0, 1}], gain \in Gains}

\* lines 319-330, one barcode b (from 0)
RefLoopStep ==
    /\ refPc = "loop"
    /\ refB < RefDecoder.barcodeCount
    /\ LET barcodeRegions == BarcodeRegions(RefDecoder, refCall.decodedImage, refB)
           seen == Len(barcodeRegions)
       IN refState' = [refState EXCEPT
              !.barcodesSeen[refB + 1] = seen,
              !.sumPixelTraces[refB + 1] =
                    Accumulate(@, barcodeRegions, seen,
                               refCall.normalizedPixelTraces,
                               refCall.pixelMagnitudes,
                               refState.backgroundRefactors)]
    /\ refB' = refB + 1
    /\ UNCHANGED <<refCall, refPc>>
    /\ UNCHANGED notRef

\* line 332
RefMask ==
    /\ refPc = "loop"
    /\ refB = RefDecoder.barcodeCount
    /\ refState' = [refState EXCEPT !.sumPixelTraces =
                        MaskOffBits(RefDecoder, @, refState.barcodesSeen)]
    /\ refPc' = "masked"
    /\ UNCHANGED <<refCall, refB>>
    /\ UNCHANGED notRef

\* line 333
RefOnBitIntensity ==
    /\ refPc = "masked"
    /\ refState' = [refState EXCEPT !.onBitIntensity =
            [i \in 1 .. RefDecoder.bitCount |->
                NanMean([b \in 1 .. RefDecoder.barcodeCount |->
                            refState.sumPixelTraces[b][i]])]]
    /\ refPc' = "averaged"
    /\ UNCHANGED <<refCall, refB>>
    /\ UNCHANGED notRef

\* lines 334-336: the refactors are returned
RefReturn ==
    /\ refPc = "averaged"
    /\ refState' = [refState EXCEPT !.refactors =
            [i \in 1 .. RefDecoder.bitCount |->
                FDiv(refState.onBitIntensity[i], Mean(refState.onBitIntensity))]]
    /\ refPc' = "returned"
    /\ UNCHANGED <<refCall, refB>>
    /\ UNCHANGED notRef

InitRefactor ==
    /\ PipeIdle
    /\ decPc = "idle" /\ decoder = <<>> /\ decCall = <<>> /\ decResult = <<>>
    /\ extCall = <<>> /\ extResult = <<>>
    /\ refCall \in RefCalls
    /\ refPc = "loop"
    /\ refB = 0
    /\ refState = RefStart(RefDecoder)
    /\ NormIdle

NextRefactor ==
    \/ RefLoopStep
    \/ RefMask
    \/ RefOnBitIntensity
    \/ RefReturn

SpecRefactor == InitRefactor /\ [][NextRefactor]_vars

(***************************************************************************)
(* PixelBasedDecoder._calculate_normalized_barcodes in its two modes.  The *)
(* array it returns holds floats; a row of it is one candidate vector.     *)
(***************************************************************************)
\* the barcodes of the codebooks of the model: up to MaxBarcodes of them,
\* of NormBits bits each
BarcodeSets ==
    UNION {[1 .. n -> [1 .. NormBits -> {0, 1}]] : n \in 1 .. MaxBarcodes}

\* binary.flip_bit(barcode, bitIndex): the barcode with that bit inverted
\* (bitIndex from 0)
flip_bit(barcode, bitIndex) ==
    [j \in DOMAIN barcode |->
        IF j = bitIndex + 1 THEN (IF barcode[j] = 0 THEN 1 ELSE 0)
        ELSE barcode[j]]

\* x/m of line 282 for a vector of integers and its norm: 0/0 is
\* not-a-number (m is 0 only when every x is)
DivideByMagnitude(x, m) ==
    [i \in DOMAIN x |-> FDiv(Num(x[i] * FP), Num(m))]

\* lines 274-284: for every barcode the barcode and its single bit flips,
\* each divided by its own magnitude
calculate_normalized_barcodes_with_errors(codebook) ==
    [b \in DOMAIN codebook |->
        LET barcodeSet == <<codebook[b]>>
                \o [i \in 1 .. Len(codebook[b]) |-> flip_bit(codebook[b], i - 1)]
            bcMagnitudes == [v \in DOMAIN barcodeSet |->
                Norm([i \in DOMAIN barcodeSet[v] |-> barcodeSet[v][i] * FP])]
        IN [v \in DOMAIN barcodeSet |->
                DivideByMagnitude(barcodeSet[v], bcMagnitudes[v])]]

\* the rows of the array and the vector each comes from: with
\* includeErrors the array has a row for every variant of every barcode
NormalizedRows(codebook, includeErrors) ==
    IF ~includeErrors
    THEN LET m == calculate_normalized_barcodes(codebook)
         IN {[from |-> codebook[b],
              row |-> [i \in DOMAIN m[b] |-> Num(m[b][i])]] : b \in DOMAIN codebook}
    ELSE LET m == calculate_normalized_barcodes_with_errors(codebook)
         IN {[from |-> codebook[b], row |-> m[b][1]] : b \in DOMAIN codebook}
            \cup {[from |-> flip_bit(codebook[b], i - 1), row |-> m[b][i + 1]] :
                        b \in DOMAIN codebook, i \in 1 .. NormBits}

CalculateNormalizedBarcodes ==
    /\ normCall # <<>>
    /\ normResult = <<>>
    /\ normResult' = [rows |-> NormalizedRows(normCall.barcodeSet,
                                              normCall.includeErrors)]
    /\ UNCHANGED normCall
    /\ UNCHANGED notNorm

InitBarcodes ==
    /\ PipeIdle
    /\ decPc = "idle" /\ decoder = <<>> /\ decCall = <<>> /\ decResult = <<>>
    /\ extCall = <<>> /\ extResult = <<>>
    /\ RefIdle
    /\ normCall \in [barcodeSet : BarcodeSets, includeErrors : BOOLEAN]
    /\ normResult = <<>>

NextBarcodes == CalculateNormalizedBarcodes

SpecBarcodes == InitBarcodes /\ [][NextBarcodes]_vars

(***************************************************************************)
(* The claims about the decoder, checked under SpecDecode.                 *)
(***************************************************************************)
\* C1: for every pixel of the result of decode_pixels, a label other than
\* -1 comes with a stored distance <= distanceThreshold, and a magnitude
\* < magnitudeThreshold comes with the label -1, whatever the distance.
C1_DecodeThresholds ==
    decPc = "decoded" =>
        \A px \in Pixels :
            /\ decResult.decodedImage[px] # -1
                  => decResult.distances[px] <= decCall.distanceThreshold
            /\ decResult.pixelMagnitudes[px] < decCall.magnitudeThreshold
                  => decResult.decodedImage[px] = -1

\* C1 witness: a decoded image with a labelled pixel whose distance is the
\* threshold itself, and a pixel within the distance threshold that its
\* low magnitude left unassigned.
C1_Witness ==
    /\ decPc = "decoded"
    /\ \E px \in Pixels :
          /\ decResult.decodedImage[px] # -1
          /\ decResult.distances[px] = decCall.distanceThreshold
    /\ \E px \in Pixels :
          /\ decResult.pixelMagnitudes[px] < decCall.magnitudeThreshold
          /\ decResult.distances[px] <= decCall.distanceThreshold
          /\ decResult.decodedImage[px] = -1

\* C9: no decoder is ever constructed with a scaleFactors or backgrounds
\* vector whose length differs from the bit count of the codebook.
C9_MismatchRejected ==
    decPc \in {"constructed", "decoded", "error"} =>
        /\ Len(decoder.scaleFactors) = decoder.bitCount
        /\ Len(decoder.backgrounds) = decoder.bitCount

(***************************************************************************)
(* The claim about extract_barcodes_with_index, checked under SpecExtract. *)
(***************************************************************************)
\* C2: extract_barcodes_with_index returns no call whose centroid, as the
\* x and y columns report it, lies within cropWidth of an edge of the
\* image, and no call whose area is below minimumArea, in 2D and in 3D.
C2_NoCallInCropMargin ==
    extResult # <<>> =>
        \A i \in DOMAIN extResult.rows :
            /\ position_within_crop(<<extResult.rows[i].y, extResult.rows[i].x>>,
                                    extCall.cropWidth, <<ExtRows, ExtCols>>)
            /\ extResult.rows[i].area >= extCall.minimumArea

\* C12: every call record has as cell_index the id the cell lookup returns
\* for the call's global centroid (global_x, global_y), and -1 when no
\* lookup is supplied or the lookup returns none.
C12_CellIndexOfGlobalCentroid ==
    extResult # <<>> =>
        \A i \in DOMAIN extResult.rows :
            LET row == extResult.rows[i]
                found == IF extCall.segmenter = None THEN None
                         ELSE get_cell_containing_position(
                                ValueOf(extCall.segmenter),
                                row.global_x, row.global_y)
            IN row.cell_index = (IF found = None THEN Some(-1) ELSE found)

(***************************************************************************)
(* The claim about extract_refactors, checked under SpecRefactor.          *)
(***************************************************************************)
\* C10: a barcode with no qualifying region has not-a-number in its whole
\* row of sumPixelTraces, so that the average over the barcodes leaves it
\* out, and extract_refactors returns no refactors when no barcode has a
\* region.
C10_ZeroRegionBarcodeExcluded ==
    /\ refPc \in {"masked", "averaged", "returned"} =>
          \A b \in DOMAIN refState.barcodesSeen :
              refState.barcodesSeen[b] = 0 =>
                  \A i \in DOMAIN refState.sumPixelTraces[b] :
                      IsNaN(refState.sumPixelTraces[b][i])
    /\ refPc = "returned" =>
          \E b \in DOMAIN refState.barcodesSeen : refState.barcodesSeen[b] > 0

(***************************************************************************)
(* The claims about the segmentation pipeline, checked under Spec.         *)
(***************************************************************************)
\* C3: CleanCellBoundaries never starts before the segmentation has
\* completed: the step that starts its _run_analysis is taken only when the
\* WatershedSegment fragment of every field of view, and the global
\* alignment, are complete.
C3_CleanStartsAfterAllSegments ==
    [][(cleanPc \in {"idle", "failed"} /\ cleanPc' = "tree")
        => (alignDone /\ \A f \in FOVs : segStatus[f] = "done")]_vars

\* C3 witness: the clean task is running behind the completed segmentation
\* of both a tile that found cells and a tile that was redone.
C3_Witness ==
    /\ cleanPc = "tree"
    /\ nResets > 0
    /\ \A f \in FOVs : segStatus[f] = "done" /\ segDB[f] # {}

CellOfId(id) == [fov |-> id[1], k |-> id[2]]

C5_NoOverlappingSurvivors ==
    "cleanedcells" \in DOMAIN persisted =>
        \A a, b \in persisted["cleanedcells"] :
            a.originalFOV # b.originalFOV =>
                /\ {a.cell_id, b.cell_id} \notin graph.edges
                /\ ~Overlaps(CellOfId(a.cell_id), CellOfId(b.cell_id))

\* C5 witness: a saved table with survivors of two tiles, out of a graph
\* that had edges.
C5_Witness ==
    /\ "cleanedcells" \in DOMAIN persisted
    /\ graph.edges # {}
    /\ \E a, b \in persisted["cleanedcells"] : a.originalFOV # b.originalFOV

WellFormed(c) == Len(get_bounding_box(c)) = 4 /\ get_volume(c) > 0

\* C6: a malformed candidate cell never reaches the spatial index or the
\* overlap graph: every entry of the index and every node of the graph is
\* a cell with a bounding box of 4 scalars and a positive volume, one that
\* _intial_clean keeps.
C6_MalformedNeverIndexed ==
    /\ \A e \in spatialTree :
          /\ Len(e.bbox) = 4 /\ WellFormed(e.obj)
          /\ \E i \in DOMAIN intial_clean(segDB, e.obj.fov) :
                intial_clean(segDB, e.obj.fov)[i] = e.obj
    /\ \A n \in graph.nodes : WellFormed(CellOfId(n.cell_id))

\* C6 witness: the run went through to its end, without an error, over
\* stores that held a cell with a box of three scalars and a cell of no
\* volume, and indexed the others.
C6_Witness ==
    /\ cleanPc = "done"
    /\ cleanFailedAt = "none"
    /\ \E c \in segDB[0] : Len(get_bounding_box(c)) # 4
    /\ \E c \in segDB[1] : get_volume(c) = 0
    /\ spatialTree # {}
    /\ graph.nodes # {}

\* C7: per-tile work is isolated: running, failing or resetting the
\* segmentation of the tile f leaves the stored features of every other
\* tile as they were.
C7_TileIsolation ==
    [][\A f \in FOVs :
          (RunSegment(f) \/ FailSegment(f) \/ ResetAnalysis(f))
              => \A g \in FOVs \ {f} : segDB'[g] = segDB[g]]_vars

\* C7 witness: a tile was reset, and is to be redone, while another tile
\* holds the features of its completed segmentation.
C7_Witness ==
    /\ nResets > 0
    /\ \E f \in FOVs : segStatus[f] = "idle" /\ segDB[f] = {}
    /\ \E g \in FOVs : segStatus[g] = "done" /\ segDB[g] # {}

\* the overlap graph of the stored features of all tiles, from scratch
RECURSIVE TreeUpTo(_)
TreeUpTo(n) ==
    IF n = 0 THEN [tree |-> {}, count |-> 0, idToNum |-> <<>>]
    ELSE LET r == TreeUpTo(n - 1)
         IN construct_tree(simple_clean_cells(read_features(segDB, n - 1)),
                           r.tree, r.count, r.idToNum)

RECURSIVE GraphUpTo(_)
GraphUpTo(n) ==
    IF n = 0 THEN EmptyGraph
    ELSE construct_graph(GraphUpTo(n - 1),
                         simple_clean_cells(read_features(segDB, n - 1)),
                         TreeUpTo(NumFOVs).tree, n - 1, FOVs, get_fov_boxes)

\* C8: the dedup stage is atomic: nothing is persisted by a run that has
\* not finished, the only file ever persisted is the cleaned-cell table,
\* and the table is the resolution of the overlap graph of all tiles.
C8_DedupAtomic ==
    /\ DOMAIN persisted \subseteq {"cleanedcells"}
    /\ cleanPc # "done" => DOMAIN persisted = {}
    /\ cleanPc = "done" =>
          /\ DOMAIN persisted = {"cleanedcells"}
          /\ persisted["cleanedcells"] = remove_overlapping_cells(GraphUpTo(NumFOVs))

\* C8 witness: a run failed after the overlap resolution and before the
\* table was saved, over tiles with overlapping cells, and nothing is
\* persisted.
C8_Witness ==
    /\ cleanPc = "failed"
    /\ cleanFailedAt = "resolved"
    /\ \E a \in segDB[0], b \in segDB[1] : Overlaps(a, b)
    /\ DOMAIN persisted = {}

\* C15: inside one run of the dedup the index is complete before it is
\* queried. The run starts with an empty index and an empty graph; while
\* the first loop runs the index holds the cleaned cells of the tiles done
\* so far, tile by tile in the order of get_fovs, each under an integer
\* handle of its own; when the graph construction starts the index holds
\* the cleaned cells of every tile, and from then on nothing is inserted.
C15_IndexCompleteBeforeQueried ==
    /\ [](/\ cleanPc \in {"tree", "graph", "resolved", "done"} =>
              /\ {e.obj : e \in spatialTree} =
                    {c \in UNION {segDB[f] : f \in FOVs} :
                        /\ WellFormed(c)
                        /\ cleanPc = "tree" => c.fov < cleanIdx}
              /\ \A e \in spatialTree :
                    /\ e.handle \in 0 .. (count - 1)
                    /\ e.bbox = get_bounding_box(e.obj)
                    /\ idToNum[get_feature_id(e.obj)] = e.handle
              /\ \A d, e \in spatialTree :
                    /\ d.handle = e.handle => d = e
                    /\ d.obj.fov < e.obj.fov => d.handle < e.handle
          /\ cleanPc = "tree" => graph = EmptyGraph
          /\ (cleanPc = "graph" /\ cleanIdx = 0) => graph = EmptyGraph)
    /\ [][((cleanPc \in {"graph", "resolved", "done"} /\ cleanPc' # "failed")
                => spatialTree' = spatialTree)
           /\ ((cleanPc # "tree" /\ cleanPc' = "tree")
                => (spatialTree' = {} /\ count' = 0 /\ graph' = EmptyGraph))]_vars

\* C15 witness: the graph construction has gone over the first tile, over
\* an index that holds cells of both tiles under handles 0 and up, with a
\* malformed cell left out.
C15_Witness ==
    /\ cleanPc = "graph"
    /\ cleanIdx = 1
    /\ graph.nodes # {}
    /\ \A f \in FOVs : \E e \in spatialTree : e.obj.fov = f
    /\ Cardinality(spatialTree) = count
    /\ \E f \in FOVs : \E c \in segDB[f] : ~WellFormed(c)

(***************************************************************************)
(* The claim about the decoding matrix, checked under SpecBarcodes.        *)
(***************************************************************************)
\* C11: every row of the decoding matrix has L2 norm 1 (to within one
\* percent), but the rows that come from an all-zero vector, which are that
\* vector unchanged; in the default mode and with the single bit errors
\* included, where a flip can leave a variant with no bit on.
C11_RowsUnitNormOrZero ==
    LET HasUnitNorm(row) ==
            /\ \A i \in DOMAIN row : ~IsNaN(row[i])
            /\ Abs(Norm([i \in DOMAIN row |-> ValueOf(row[i])]) - FP) * 100 <= FP
        IsUnchanged(r) ==
            \A i \in DOMAIN r.row : r.row[i] = Num(r.from[i] * FP)
    IN normResult # <<>> =>
        \A r \in normResult.rows :
            IF \A i \in DOMAIN r.from : r.from[i] = 0
            THEN IsUnchanged(r)
            ELSE HasUnitNorm(r.row)

(***************************************************************************)
(* The claims about the deduplication and the refinement behind a          *)
(* completed segmentation, checked under SpecDedup.                        *)
(***************************************************************************)
RECURSIVE SetSum(_)
SetSum(S) == IF S = {} THEN 0 ELSE LET x == SetMax(S) IN x + SetSum(S \ {x})

\* the distance from the centroid of a cell (the mean of its positions) to
\* the center of a tile, in units of 1 / (2 * the number of positions)
CentroidToCenter(c, f) ==
    Abs(2 * SetSum(Pts(c)) - Cardinality(Pts(c)) * Center2(fov_global_extent(f)))

\* the extent of the tile contains the centroid of the cell
TileHoldsCentroid(c, f) ==
    /\ Cardinality(Pts(c)) * fov_global_extent(f)[1] <= SetSum(Pts(c))
    /\ SetSum(Pts(c)) <= Cardinality(Pts(c)) * fov_global_extent(f)[3]

\* the assigned tile of a row is nearest to its cell among the tiles that
\* contain the centroid
HasNearestTile(row) ==
    LET c == CellOfId(row.cell_id)
    IN /\ row.assignedFOV \in FOVs
       /\ TileHoldsCentroid(c, row.assignedFOV)
       /\ \A g \in FOVs : TileHoldsCentroid(c, g) =>
              CentroidToCenter(c, row.assignedFOV) <= CentroidToCenter(c, g)

\* the pairs of stored cells of different tiles with one and the same
\* geometry
Copies ==
    {p \in (UNION {segDB[f] : f \in FOVs}) \X (UNION {segDB[f] : f \in FOVs}) :
        p[1].fov < p[2].fov /\ Pts(p[1]) = Pts(p[2])}

\* of the two copies one is retained, the copy of the tile whose center is
\* closer to the centroid
OneCopyKept(a, b) ==
    LET kept == {r \in cleanedCells :
                    r.cell_id \in {get_feature_id(a), get_feature_id(b)}}
    IN /\ Cardinality(kept) = 1
       /\ \A r \in kept :
            /\ CentroidToCenter(a, a.fov) < CentroidToCenter(b, b.fov)
                    => r.originalFOV = a.fov
            /\ CentroidToCenter(b, b.fov) < CentroidToCenter(a, a.fov)
                    => r.originalFOV = b.fov

\* the two copies overlap each other and no other cell
OverlapNoOther(a, b) ==
    \A e \in graph.edges :
        e \cap {get_feature_id(a), get_feature_id(b)} # {}
            => e = {get_feature_id(a), get_feature_id(b)}

C14_RefinedHoldsSurvivors ==
    \A f \in FOVs :
        refineStatus[f] = "done" =>
            refinedDB[f] =
                {c \in segDB[f] :
                    \E r \in persisted["cleanedcells"] :
                        r.cell_id = get_feature_id(c) /\ r.originalFOV = f}

\* C14 witness: the refinement of every tile has completed, the survivors
\* of one tile are split over two assignedFOV groups, and a cell of a tile
\* was dropped by the dedup.
C14_Witness ==
    /\ \A f \in FOVs : refineStatus[f] = "done"
    /\ \E f \in FOVs :
          Cardinality({r.assignedFOV : r \in
                {x \in persisted["cleanedcells"] : x.originalFOV = f}}) >= 2
    /\ \E g \in FOVs : \E c \in segDB[g] : c \notin refinedDB[g]
====
